---- MODULE Spec2Model ----
\* Model of notebooks/load_format_images.ipynb: remove_duplicate_images,
\* create_folder_structure and populate_image_folders, each as a state machine
\* over the directory tree it reads and writes.
EXTENDS Integers, Sequences, FiniteSets, TLC

VARIABLES
    \* ---- remove_duplicate_images ----
    raw_images,   \* raw_images directory: existing class folder -> name -> entry
    pc,           \* position of the run: "scan", "remove", "done", "error"
    f,            \* index into class_folders of the outer loop
    pending,      \* names the glob of the current folder has not yielded yet
    i,            \* enumerate() index of the inner loop
    hash_keys,    \* dict: file_hash -> index of the first file with that hash
    dupes,        \* list of (index, "<first index>: <path>")
    stdout,       \* the printed totals, one per run
    k,            \* position of the removal loop in dupes
    run,          \* number of the current call
    start_images, \* history: raw_images when the current call started
    visited,      \* history: regular files hashed by the current call, in order
    removed,      \* history: files os.remove deleted in the current call
    \* ---- create_folder_structure ----
    formatted,    \* formatted_images: existing folder -> set of its subfolders
    cpc,          \* "folder", "sub", "done"
    cf,           \* index into folders
    csf,          \* index into sub_folders
    log,          \* the printed lines
    \* ---- populate_image_folders ----
    count,        \* class -> number of images in raw_images/<class>
    ppc,          \* "class", "copy", "done"
    c,            \* index into classes
    n,            \* enumerate() index of the copy loop
    test_split,
    val_split,
    copied        \* set of <<class, n, destination folder>> copies made

dvars == <<raw_images, pc, f, pending, i, hash_keys, dupes, stdout, k, run,
           start_images, visited, removed>>
cvars == <<formatted, cpc, cf, csf, log>>
pvars == <<count, ppc, c, n, test_split, val_split, copied>>
vars == <<dvars, cvars, pvars>>

\* ------------------------------------------------------------------ bounds
MaxFiles == 3     \* directory entries in raw_images/no and raw_images/yes together
NumPixels == 2    \* distinct decoded pixel arrays
MaxRuns == 2      \* successive calls of remove_duplicate_images
MaxImages == 12   \* images per class folder in populate_image_folders

\* ------------------------------------------------------------------ strings
\* A string is a sequence of one-character strings.
Digits == <<"0", "1", "2", "3", "4", "5", "6", "7", "8", "9">>

RECURSIVE Str(_)
Str(x) == IF x < 10 THEN <<Digits[x + 1]>>
          ELSE Str(x \div 10) \o <<Digits[(x % 10) + 1]>>

\* the positions at which sep occurs in s
Occurrences(s, sep) ==
    {p \in 1..(Len(s) - Len(sep) + 1) : SubSeq(s, p, p + Len(sep) - 1) = sep}

Range(q) == {q[j] : j \in DOMAIN q}

Min(S) == CHOOSE x \in S : \A y \in S : x <= y

\* str.split(sep): the pieces between the non-overlapping occurrences of sep,
\* taken left to right
RECURSIVE Split(_, _)
Split(s, sep) ==
    IF Occurrences(s, sep) = {} THEN <<s>>
    ELSE LET p == Min(Occurrences(s, sep))
         IN  <<SubSeq(s, 1, p - 1)>> \o Split(SubSeq(s, p + Len(sep), Len(s)), sep)

\* ------------------------------------------------------------------ raw_images
class_folders == <<"no", "yes">>

FolderStr(d) == IF d = "no" THEN <<"n", "o">> ELSE <<"y", "e", "s">>

\* file names a class folder may hold
Names == {<<"a">>, <<"b">>, <<"a", ":", " ", "b">>, <<"a", ":", " ", "c">>}

\* str(image_folder): the absolute path of raw_images
image_folder == <<"/", "r">>

\* str(image) for the entry name of class folder d
PathStr(d, name) == image_folder \o <<"/">> \o FolderStr(d) \o <<"/">> \o name

\* A file's bytes, by what they decode to: 0 does not decode as an image, p > 0
\* decodes to the pixel array p.
Contents == 0..NumPixels
Absent == [type |-> "absent", content |-> 0]
Dir == [type |-> "dir", content |-> 0]
File(b) == [type |-> "file", content |-> b]
Entries == {Absent, Dir} \cup {File(b) : b \in Contents}

\* cv2.imread: the decoded pixel array, or None when the file does not decode
None == <<"None">>
imread(b) == IF b = 0 THEN None ELSE <<"ndarray", b>>

\* hashlib.md5(np.array(x, dtype=object)).hexdigest(): the digest of the buffer of
\* the object array; np.array(None, dtype=object) is a 0-d array and hashes too
file_hash(arr) == IF arr = None THEN <<"md5", "None">> ELSE <<"md5", "pixels", arr[2]>>

\* _folder_path.glob("*"): the entries of a folder; nothing for a missing folder
glob(fs, d) == IF d \in DOMAIN fs
               THEN {name \in Names : fs[d][name] # Absent}
               ELSE {}

\* image.is_file()
is_file(fs, d, name) == fs[d][name].type = "file"

NumEntries(fs) == Cardinality({e \in (DOMAIN fs) \X Names : fs[e[1]][e[2]] # Absent})

\* the tree with the class folders D whose entries are those of the function on
\* <<folder, name>> slots
Tree(D, on) ==
    [d \in D |-> [name \in Names |->
        IF <<d, name>> \in DOMAIN on THEN on[<<d, name>>] ELSE Absent]]

\* the states raw_images may be in before the first call
TreeStates ==
    UNION {UNION {{Tree(D, on) : on \in [S -> Entries \ {Absent}]} :
                    S \in {T \in SUBSET (D \X Names) : Cardinality(T) <= MaxFiles}} :
             D \in SUBSET Range(class_folders)}

\* the regular files of a tree, as <<folder, name>>
RegularFiles(fs) ==
    {e \in (DOMAIN fs) \X Names : fs[e[1]][e[2]].type = "file"}

Fingerprint(fs, e) == file_hash(imread(fs[e[1]][e[2]].content))

\* the local variables of remove_duplicate_images at entry
EnterRun(fs) ==
    /\ pc = "scan"
    /\ f = 1
    /\ pending = glob(fs, class_folders[1])
    /\ i = 0
    /\ hash_keys = <<>>
    /\ dupes = <<>>
    /\ k = 1
    /\ visited = <<>>
    /\ removed = {}

DedupInit ==
    /\ raw_images \in TreeStates
    /\ start_images = raw_images
    /\ EnterRun(raw_images)
    /\ stdout = <<>>
    /\ run = 1

\* ScanEntry with the duplicate deleted as soon as it is detected
ScanEntryEager ==
    /\ pc = "scan"
    /\ \E name \in pending :
        LET d == class_folders[f]
            h == file_hash(imread(raw_images[d][name].content))
        IN  /\ pending' = pending \ {name}
            /\ i' = i + 1
            /\ IF ~is_file(raw_images, d, name)
               THEN UNCHANGED <<hash_keys, dupes, visited, raw_images, removed>>
               ELSE /\ visited' = Append(visited, <<d, name>>)
                    /\ IF h \notin DOMAIN hash_keys
                       THEN /\ hash_keys' = hash_keys @@ (h :> i)
                            /\ UNCHANGED <<dupes, raw_images, removed>>
                       ELSE /\ dupes' = Append(dupes,
                                   <<i, Str(hash_keys[h]) \o <<":", " ">> \o PathStr(d, name)>>)
                            /\ raw_images' = [raw_images EXCEPT ![d][name] = Absent]
                            /\ removed' = removed \cup {<<d, name>>}
                            /\ UNCHANGED hash_keys
    /\ UNCHANGED <<pc, f, stdout, k, run, start_images>>

\* one iteration of "for i, image in enumerate(_folder_path.glob('*'))";
\* the listing order is the file system's
ScanEntry ==
    /\ pc = "scan"
    /\ \E name \in pending :
        LET d == class_folders[f]
            h == file_hash(imread(raw_images[d][name].content))
        IN  /\ pending' = pending \ {name}
            /\ i' = i + 1
            /\ IF ~is_file(raw_images, d, name)
               THEN UNCHANGED <<hash_keys, dupes, visited>>
               ELSE /\ visited' = Append(visited, <<d, name>>)
                    /\ IF h \notin DOMAIN hash_keys
                       THEN /\ hash_keys' = hash_keys @@ (h :> i)
                            /\ UNCHANGED dupes
                       ELSE /\ dupes' = Append(dupes,
                                   <<i, Str(hash_keys[h]) \o <<":", " ">> \o PathStr(d, name)>>)
                            /\ UNCHANGED hash_keys
    /\ UNCHANGED <<raw_images, pc, f, stdout, k, run, start_images, removed>>

\* "for f in class_folders": the glob of the current folder is exhausted
NextFolder ==
    /\ pc = "scan"
    /\ pending = {}
    /\ f < Len(class_folders)
    /\ f' = f + 1
    /\ pending' = glob(raw_images, class_folders[f + 1])
    /\ i' = 0
    /\ UNCHANGED <<raw_images, pc, hash_keys, dupes, stdout, k, run,
                   start_images, visited, removed>>

\* print(f"Total number of duplicated images: {len(dupes)}")
PrintTotal ==
    /\ pc = "scan"
    /\ pending = {}
    /\ f = Len(class_folders)
    /\ stdout' = Append(stdout, Len(dupes))
    /\ pc' = "remove"
    /\ k' = 1
    /\ UNCHANGED <<raw_images, f, pending, i, hash_keys, dupes, run,
                   start_images, visited, removed>>

\* the path os.remove is given for the entry di of dupes
RemoveTarget(di) == Split(di, <<":", " ">>)[2]

\* the entries of the tree whose path is the string p
Resolve(fs, p) ==
    {e \in (DOMAIN fs) \X Names : fs[e[1]][e[2]] # Absent /\ PathStr(e[1], e[2]) = p}

\* one iteration of "for si, di in dupes: os.remove(...)"; os.remove raises for
\* a path that does not exist or is a directory, which ends the call
RemoveDupe ==
    /\ pc = "remove"
    /\ k <= Len(dupes)
    /\ LET p == RemoveTarget(dupes[k][2])
           hit == {e \in Resolve(raw_images, p) : is_file(raw_images, e[1], e[2])}
       IN  IF hit # {}
           THEN LET e == CHOOSE x \in hit : TRUE
                IN  /\ raw_images' = [raw_images EXCEPT ![e[1]][e[2]] = Absent]
                    /\ removed' = removed \cup {e}
                    /\ k' = k + 1
                    /\ UNCHANGED pc
           ELSE /\ pc' = "error"
                /\ UNCHANGED <<raw_images, removed, k>>
    /\ UNCHANGED <<f, pending, i, hash_keys, dupes, stdout, run,
                   start_images, visited>>

\* the removal loop is exhausted: the call returns
Return ==
    /\ pc = "remove"
    /\ k > Len(dupes)
    /\ pc' = "done"
    /\ UNCHANGED <<raw_images, f, pending, i, hash_keys, dupes, stdout, k, run,
                   start_images, visited, removed>>

\* remove_duplicate_images() is called again on the tree the last call left
CallAgain ==
    /\ pc = "done"
    /\ run < MaxRuns
    /\ run' = run + 1
    /\ start_images' = raw_images
    /\ pc' = "scan"
    /\ f' = 1
    /\ pending' = glob(raw_images, class_folders[1])
    /\ i' = 0
    /\ hash_keys' = <<>>
    /\ dupes' = <<>>
    /\ k' = 1
    /\ visited' = <<>>
    /\ removed' = {}
    /\ UNCHANGED <<raw_images, stdout>>

\* ------------------------------------------------------------------ create_folder_structure
folders == <<"TRAIN_IMGS", "TEST_IMGS", "VALIDATION_IMGS">>
sub_folders == <<"YES", "NO">>

\* the states formatted_images may be in before the call
FormattedStates ==
    UNION {[D -> SUBSET Range(sub_folders)] : D \in SUBSET Range(folders)}

CreateInit ==
    /\ formatted \in FormattedStates
    /\ cpc = "folder"
    /\ cf = 1
    /\ csf = 1
    /\ log = <<>>

\* "for f in folders: if not f.exists(): f.mkdir(parents=True) ... else: ..."
CheckFolder ==
    /\ cpc = "folder"
    /\ cf <= Len(folders)
    /\ IF folders[cf] \notin DOMAIN formatted
       THEN /\ formatted' = formatted @@ (folders[cf] :> {})
            /\ log' = Append(log, <<"Folder", folders[cf], "created">>)
            /\ cpc' = "sub"
            /\ csf' = 1
            /\ UNCHANGED cf
       ELSE /\ log' = Append(log, <<"Folder", folders[cf], "already exists">>)
            /\ cf' = cf + 1
            /\ UNCHANGED <<formatted, cpc, csf>>

\* "for sf in sub_folders: if not sub_folder_dir.exists(): ... else: ..."
CheckSubFolder ==
    /\ cpc = "sub"
    /\ csf <= Len(sub_folders)
    /\ IF sub_folders[csf] \notin formatted[folders[cf]]
       THEN /\ formatted' = [formatted EXCEPT
                                ![folders[cf]] = @ \cup {sub_folders[csf]}]
            /\ log' = Append(log, <<"SubFolder", sub_folders[csf], "created">>)
       ELSE /\ log' = Append(log, <<"SubFolder", sub_folders[csf], "already exists">>)
            /\ UNCHANGED formatted
    /\ csf' = csf + 1
    /\ UNCHANGED <<cpc, cf>>

\* the loop over sub_folders is exhausted
SubFoldersDone ==
    /\ cpc = "sub"
    /\ csf > Len(sub_folders)
    /\ cf' = cf + 1
    /\ cpc' = "folder"
    /\ UNCHANGED <<formatted, csf, log>>

\* the loop over folders is exhausted: the call returns
CreateReturn ==
    /\ cpc = "folder"
    /\ cf > Len(folders)
    /\ cpc' = "done"
    /\ UNCHANGED <<formatted, cf, csf, log>>

\* ------------------------------------------------------------------ populate_image_folders
classes == <<"yes", "no">>

\* int(round(num / den, 0)): Python rounds a half to the even neighbour
Round(num, den) ==
    LET q == num \div den
        r == num % den
    IN  IF 2 * r < den THEN q
        ELSE IF 2 * r > den THEN q + 1
        ELSE IF q % 2 = 0 THEN q ELSE q + 1

\* test_split = int(round(image_folder_count * 0.2, 0))
TestSplit(cnt) == Round(2 * cnt, 10)

\* val_split = int(round((image_folder_count - test_split) * 0.1, 0))
ValSplit(cnt) == Round(cnt - TestSplit(cnt), 10)

\* the folder the image with enumerate index m is copied to
Destination(m, cnt, ts, vs) ==
    IF m <= ts THEN "TEST_IMGS"
    ELSE IF m <= cnt - vs THEN "TRAIN_IMGS"
    ELSE "VALIDATION_IMGS"

PopulateInit ==
    /\ count \in [Range(classes) -> 0..MaxImages]
    /\ ppc = "class"
    /\ c = 1
    /\ n = 0
    /\ test_split = 0
    /\ val_split = 0
    /\ copied = {}

\* "for c in classes": count the images and compute the two splits
StartClass ==
    /\ ppc = "class"
    /\ c <= Len(classes)
    /\ test_split' = TestSplit(count[classes[c]])
    /\ val_split' = ValSplit(count[classes[c]])
    /\ n' = 0
    /\ ppc' = "copy"
    /\ UNCHANGED <<count, c, copied>>

\* one iteration of "for (n, image_path) in enumerate(class_folder.glob('*'))"
CopyImage ==
    /\ ppc = "copy"
    /\ n < count[classes[c]]
    /\ copied' = copied \cup
           {<<classes[c], n, Destination(n, count[classes[c]], test_split, val_split)>>}
    /\ n' = n + 1
    /\ UNCHANGED <<count, ppc, c, test_split, val_split>>

\* the glob of the class folder is exhausted
ClassDone ==
    /\ ppc = "copy"
    /\ n >= count[classes[c]]
    /\ c' = c + 1
    /\ ppc' = "class"
    /\ UNCHANGED <<count, n, test_split, val_split, copied>>

\* the loop over classes is exhausted: the call returns
PopulateReturn ==
    /\ ppc = "class"
    /\ c > Len(classes)
    /\ ppc' = "done"
    /\ UNCHANGED <<count, c, n, test_split, val_split, copied>>

\* ------------------------------------------------------------------ specifications
\* a function that is not being run
DedupIdle ==
    /\ raw_images = <<>> /\ start_images = <<>> /\ pc = "done" /\ f = 1
    /\ pending = {} /\ i = 0 /\ hash_keys = <<>> /\ dupes = <<>> /\ stdout = <<>>
    /\ k = 1 /\ run = 1 /\ visited = <<>> /\ removed = {}

CreateIdle ==
    /\ formatted = <<>> /\ cpc = "done" /\ cf = 1 /\ csf = 1 /\ log = <<>>

PopulateIdle ==
    /\ count = <<>> /\ ppc = "done" /\ c = 1 /\ n = 0
    /\ test_split = 0 /\ val_split = 0 /\ copied = {}

\* remove_duplicate_images(), called up to MaxRuns times in succession
Init == DedupInit /\ CreateIdle /\ PopulateIdle

Next ==
    \/ ScanEntry /\ UNCHANGED <<cvars, pvars>>
    \/ NextFolder /\ UNCHANGED <<cvars, pvars>>
    \/ PrintTotal /\ UNCHANGED <<cvars, pvars>>
    \/ RemoveDupe /\ UNCHANGED <<cvars, pvars>>
    \/ Return /\ UNCHANGED <<cvars, pvars>>
    \/ CallAgain /\ UNCHANGED <<cvars, pvars>>

Spec == Init /\ [][Next]_vars

\* create_folder_structure()
InitCreate == CreateInit /\ DedupIdle /\ PopulateIdle

NextCreate ==
    \/ CheckFolder /\ UNCHANGED <<dvars, pvars>>
    \/ CheckSubFolder /\ UNCHANGED <<dvars, pvars>>
    \/ SubFoldersDone /\ UNCHANGED <<dvars, pvars>>
    \/ CreateReturn /\ UNCHANGED <<dvars, pvars>>

SpecCreate == InitCreate /\ [][NextCreate]_vars

\* populate_image_folders()
InitPopulate == PopulateInit /\ DedupIdle /\ CreateIdle

NextPopulate ==
    \/ StartClass /\ UNCHANGED <<dvars, cvars>>
    \/ CopyImage /\ UNCHANGED <<dvars, cvars>>
    \/ ClassDone /\ UNCHANGED <<dvars, cvars>>
    \/ PopulateReturn /\ UNCHANGED <<dvars, cvars>>

SpecPopulate == InitPopulate /\ [][NextPopulate]_vars

\* ------------------------------------------------------------------ properties
\* the fingerprint of the j-th regular file the current call hashed
VisitedFp(j) == Fingerprint(start_images, visited[j])

\* the j-th hashed file is the first of the scan with its fingerprint
FirstSeen(j) == \A m \in 1..(j - 1) : VisitedFp(m) # VisitedFp(j)

\* the regular files left in raw_images with the fingerprint h
Survivors(h) == {x \in RegularFiles(raw_images) : Fingerprint(raw_images, x) = h}

\* C1: after a completed call, every fingerprint that occurred among the scanned
\* regular files has exactly one file left, counted over both folders together.
C1_ExactlyOneSurvivor ==
    pc = "done" =>
        \A e \in RegularFiles(start_images) :
            Cardinality(Survivors(Fingerprint(start_images, e))) = 1

\* C2: a file the call deleted shares its fingerprint with another scanned file;
\* a file with a fingerprint of its own is never deleted.
C2_UniqueNeverDeleted ==
    \A e \in removed :
        \E x \in RegularFiles(start_images) \ {e} :
            Fingerprint(start_images, x) = Fingerprint(start_images, e)

\* C3: after a completed call, the first file of the scan with each fingerprint
\* is still there, and every deleted file was met after a file with its fingerprint.
C3_FirstSeenKept ==
    pc = "done" =>
        \A j \in 1..Len(visited) :
            /\ FirstSeen(j) => visited[j] \in RegularFiles(raw_images)
            /\ visited[j] \in removed => ~FirstSeen(j)

\* C4: when a call has ended, the printed total is the number of files it removed,
\* and is the number of scanned regular files less the number of fingerprints.
C4_PrintedEqualsRemoved ==
    pc \in {"done", "error"} =>
        /\ stdout[run] = Cardinality(removed)
        /\ stdout[run] =
             Len(visited) - Cardinality({VisitedFp(j) : j \in 1..Len(visited)})

\* C5: a call made directly after a completed call prints a total of zero and
\* deletes no file.
C5_SecondRunIdempotent ==
    run >= 2 =>
        /\ removed = {}
        /\ Len(stdout) >= run => stdout[run] = 0

\* C6: a regular file that does not decode ends the call with an error: its hash
\* is never entered into hash_keys and the call never completes over such a file.
C6_DecodeFailureFatal ==
    /\ file_hash(None) \notin DOMAIN hash_keys
    /\ pc = "done" =>
         \A e \in RegularFiles(start_images) :
             imread(start_images[e[1]][e[2]].content) # None

\* C7: a call over a missing class folder ends with an error: it never gets to
\* print the total or to return.
C7_MissingFolderFatal ==
    pc \in {"remove", "done"} => Range(class_folders) \subseteq DOMAIN raw_images

\* C8: when create_folder_structure has returned, each of the three folders
\* exists and holds both the YES and the NO subfolder.
C8_AllFoldersExist ==
    cpc = "done" =>
        \A fd \in Range(folders) :
            fd \in DOMAIN formatted /\ formatted[fd] = Range(sub_folders)

\* C9: when populate_image_folders has returned, every image of a class was copied
\* to exactly one folder, round(0.2 N) of them to TEST_IMGS,
\* round(0.1 (N - test_split)) to VALIDATION_IMGS and the rest to TRAIN_IMGS.
C9_SplitCounts ==
    ppc = "done" =>
        \A cl \in Range(classes) :
            LET N == count[cl]
                ts == Round(2 * N, 10)
                vs == Round(N - ts, 10)
                To(dst) == {m \in 0..(N - 1) : <<cl, m, dst>> \in copied}
            IN  /\ \A m \in 0..(N - 1) :
                     Cardinality({dst \in Range(folders) : <<cl, m, dst>> \in copied}) = 1
                /\ Cardinality(To("TEST_IMGS")) = ts
                /\ Cardinality(To("VALIDATION_IMGS")) = vs
                /\ Cardinality(To("TRAIN_IMGS")) = N - ts - vs

\* C10: no file is deleted before every regular file of both folders has been
\* hashed and the total of the call has been printed.
C10_NoDeleteBeforePrint ==
    raw_images # start_images =>
        /\ pc # "scan"
        /\ Len(stdout) = run
        /\ RegularFiles(start_images) \subseteq Range(visited)

\* a call whose scan found two duplicates has printed and has deleted a file
C10_Witness ==
    /\ pc = "remove"
    /\ Len(dupes) = 2
    /\ raw_images # start_images
====
